---- MODULE Spec2Model ----
(***************************************************************************)
(* Model of dash.py, the Streamlit budget dashboard.                       *)
(*                                                                         *)
(* Data layer: load_data (window filter, Disbursement sign flip, cached by *)
(* st.cache_data) and bar_compare (per-date sums, optional running sums,   *)
(* one trace per non-empty series).                                        *)
(* Session layer: the script is re-run from the top on every widget        *)
(* interaction; st.session_state survives the runs; page_tv_mode loops     *)
(* forever and is left only when a rerun request is served at one of its   *)
(* st.* calls.                                                             *)
(*                                                                         *)
(* Dates are written as the integer yyyymmdd, which orders as the calendar *)
(* does.  A data frame is a sequence of rows; a row is a function from the *)
(* column names of the workbook to the cell values, plus "index", the row  *)
(* label pandas keeps through filtering.                                   *)
(***************************************************************************)
EXTENDS Integers, Sequences, FiniteSets, TLC

VARIABLES
    budg_file,          \* rows of data_base/budget_base_tabular.xlsx
    aum_file,           \* rows of data_base/budget_aum_tabular_novo_approach.xlsx
    cache,              \* st.cache_data entry of load_data: <<>> or <<df_budg, df_aum>>
    df,                 \* the running script's  df_budg, df_aum : <<>> or <<df_budg, df_aum>>
    session_state,      \* st.session_state: a function from the keys present to their values
    selection,          \* value of the sidebar radio
    clicked,            \* the button that reads True in the script run about to start
    request,            \* rerun request raised by the browser while the TV loop runs
    pc,                 \* where the script is
    iteration_counter,  \* local of page_tv_mode
    screen,             \* what the browser shows
    start_index,        \* history: view_index when the running TV loop was entered
    last_rendered,      \* history: index of the last view rendered in full, -1 if none
    resumed,            \* history: the running TV loop found view_index already stored
    renders_since_stop, \* history: views rendered in full since Exit was clicked; -1 when
                        \* TV mode has been started since, or Exit never clicked
    cache_hits          \* history: the last load_data call was served from the cache

vars == <<budg_file, aum_file, cache, df, session_state, selection, clicked, request,
          pc, iteration_counter, screen, start_index, last_rendered, resumed,
          renders_since_stop, cache_hits>>

dataVars == <<budg_file, aum_file>>

----------------------------------------------------------------------------
(* Bounds of the model *)

\* most rows in a workbook
MaxRows == 2

\* most iterations of the TV loop in one script run
MaxIter == 7

----------------------------------------------------------------------------
(* Configuration, dash.py:13-21 *)

START == 20250401

END == 20260331

Columns == {"index", "Data", "Categoria", "Natureza do Dado", "Budget", "Actual/Est"}

Row(i, data, categoria, natureza, budget, actual) ==
    [c \in Columns |->
        CASE c = "index" -> i
          [] c = "Data" -> data
          [] c = "Categoria" -> categoria
          [] c = "Natureza do Dado" -> natureza
          [] c = "Budget" -> budget
          [] c = "Actual/Est" -> actual]

----------------------------------------------------------------------------
(* load_data, dash.py:24-34 *)

\* faulty variant of FilterWindow: strict comparisons drop the two end dates
FilterWindowMutant(frame) ==
    SelectSeq(frame, LAMBDA r : r["Data"] > START /\ r["Data"] < END)

\* df[(df["Data"] >= START) & (df["Data"] <= END)]
FilterWindow(frame) ==
    SelectSeq(frame, LAMBDA r : r["Data"] >= START /\ r["Data"] <= END)

\* faulty variant of NegateRow: the sign is left as read
NegateRowMutant(r) ==
    r

\* the row after   df_aum.loc[mask, ["Budget", "Actual/Est"]] *= -1
NegateRow(r) ==
    [r EXCEPT !["Budget"] = -1 * @, !["Actual/Est"] = -1 * @]

\* mask = df_aum["Categoria"] == "Disbursement" ; the masked rows are negated
NegateDisbursement(frame) ==
    [i \in DOMAIN frame |->
        IF frame[i]["Categoria"] = "Disbursement" THEN NegateRow(frame[i]) ELSE frame[i]]

\* the body of load_data: what an uncached call computes from the two workbooks
LoadDataBody(budg, aum) ==
    <<FilterWindow(budg), NegateDisbursement(FilterWindow(aum))>>

\* faulty variant of load_data: the sign flip is applied again to the stored tables
LoadDataMutant(entry, budg, aum) ==
    IF entry # <<>> THEN <<entry[1], NegateDisbursement(entry[2])>> ELSE LoadDataBody(budg, aum)

\* @st.cache_data: the body runs on a miss only, a hit returns the stored value
load_data(entry, budg, aum) ==
    IF entry # <<>> THEN entry ELSE LoadDataBody(budg, aum)

----------------------------------------------------------------------------
(* bar_compare, dash.py:52-71 *)

RECURSIVE SortedIndex(_)
\* the group keys in ascending order (groupby sorts its keys; .sort_index())
SortedIndex(S) ==
    IF S = {} THEN <<>>
    ELSE LET m == CHOOSE m \in S : \A k \in S : m <= k
         IN  <<m>> \o SortedIndex(S \ {m})

RECURSIVE SumCol(_, _)
\* .sum() of column col over the rows of one group
SumCol(rows, col) ==
    IF rows = <<>> THEN 0 ELSE rows[1][col] + SumCol(Tail(rows), col)

\* d.groupby('Data')[col].sum().sort_index() as the sequence of (x, y) points
GroupBySum(d, col) ==
    LET index == SortedIndex({d[i]["Data"] : i \in DOMAIN d})
    IN  [k \in 1..Len(index) |->
            [x |-> index[k],
             y |-> SumCol(SelectSeq(d, LAMBDA r : r["Data"] = index[k]), col)]]

\* faulty variant of SelectNature: the nature filter is dropped
SelectNatureMutant(d, nature) ==
    d

\* d[d['Natureza do Dado'] == nature]
SelectNature(d, nature) ==
    SelectSeq(d, LAMBDA r : r["Natureza do Dado"] = nature)

RECURSIVE SumY(_)
SumY(series) ==
    IF series = <<>> THEN 0 ELSE series[1].y + SumY(Tail(series))

\* faulty variant of CumSum: the series is left as it is
CumSumMutant(series) ==
    series

\* series.cumsum()
CumSum(series) ==
    [k \in 1..Len(series) |-> [x |-> series[k].x, y |-> SumY(SubSeq(series, 1, k))]]

\* faulty variant of AddTrace: the trace is added even when the series is empty
AddTraceMutant(series, name, type) ==
    <<[name |-> name, type |-> type,
       x |-> [k \in 1..Len(series) |-> series[k].x],
       y |-> [k \in 1..Len(series) |-> series[k].y]]>>

\* if not series.empty: fig.add_trace(go.Bar / go.Scatter (x=series.index, y=series, name=...))
AddTrace(series, name, type) ==
    IF Len(series) = 0 THEN <<>>
    ELSE <<[name |-> name, type |-> type,
            x |-> [k \in 1..Len(series) |-> series[k].x],
            y |-> [k \in 1..Len(series) |-> series[k].y]]>>

\* the figure bar_compare hands to st.plotly_chart: its traces, in the order added
bar_compare(frame, categoria, cumulative) ==
    LET d == SelectSeq(frame, LAMBDA r : r["Categoria"] = categoria)
        budget_sum   == GroupBySum(d, "Budget")
        actual_sum   == GroupBySum(SelectNature(d, "Actual"), "Actual/Est")
        forecast_sum == GroupBySum(SelectNature(d, "Forecast"), "Actual/Est")
        budget_data   == IF cumulative THEN CumSum(budget_sum) ELSE budget_sum
        actual_data   == IF cumulative THEN CumSum(actual_sum) ELSE actual_sum
        forecast_data == IF cumulative THEN CumSum(forecast_sum) ELSE forecast_sum
    IN  AddTrace(actual_data, "Actual", "Bar")
        \o AddTrace(forecast_data, "Forecast", "Bar")
        \o AddTrace(budget_data, "Budget", "Scatter")

\* one st.plotly_chart on the page: the figure, its key, and the call that built it
\* (table 1 is df_budg, table 2 is df_aum)
Chart(frames, table, categoria, cumulative, key) ==
    [key |-> key, table |-> table, categoria |-> categoria, cumulative |-> cumulative,
     fig |-> bar_compare(frames[table], categoria, cumulative)]

----------------------------------------------------------------------------
(* page_dashboard, dash.py:104-126: the five charts of the main page *)

page_dashboard(frames) ==
    << Chart(frames, 2, "Committed", TRUE, "dash_committed"),
       Chart(frames, 2, "Disbursement", TRUE, "dash_disbursement"),
       Chart(frames, 2, "AuM at the EoP", FALSE, "dash_aum"),
       Chart(frames, 1, "Revenues - Net of ECL", FALSE, "dash_revenues"),
       Chart(frames, 1, "PROFIT BEFORE TAX", FALSE, "dash_pbt") >>

(* page_tv_mode, dash.py:226-232: the list of views *)

views ==
    << [type |-> "chart", table |-> 2, categoria |-> "Committed", cumulative |-> TRUE],
       [type |-> "chart", table |-> 2, categoria |-> "Disbursement", cumulative |-> TRUE],
       [type |-> "chart", table |-> 2, categoria |-> "AuM at the EoP", cumulative |-> FALSE],
       [type |-> "chart", table |-> 1, categoria |-> "Revenues - Net of ECL", cumulative |-> FALSE],
       [type |-> "chart", table |-> 1, categoria |-> "PROFIT BEFORE TAX", cumulative |-> FALSE],
       [type |-> "okr_summary"] >>

\* faulty variant of Advance: a view is skipped
AdvanceMutant(index, n) ==
    (index + 2) % n

\* (st.session_state.view_index + 1) % len(views)
Advance(index, n) ==
    (index + 1) % n

PAGES == <<"Main Dashboard", "OKRs Tracking">>

----------------------------------------------------------------------------
(* st.session_state *)

NoKeys == [k \in {} |-> FALSE]

Has(state, key) == key \in DOMAIN state

Put(state, key, value) == (key :> value) @@ state

\* dash.py:266-267   if "tv_mode_on" not in st.session_state: ... = False
InitTvModeOn(state) ==
    IF Has(state, "tv_mode_on") THEN state ELSE Put(state, "tv_mode_on", FALSE)

\* faulty variant of InitViewIndex: the index is reset on every entry
InitViewIndexMutant(state) ==
    Put(state, "view_index", 0)

\* dash.py:234-235   if 'view_index' not in st.session_state: ... = 0
InitViewIndex(state) ==
    IF Has(state, "view_index") THEN state ELSE Put(state, "view_index", 0)

\* a rerun request stops the running script at its next st.* call
YieldStops(req) ==
    req # "none"

TvPcs == {"tv_loop", "tv_body", "tv_sleep"}

Blank == [page |-> "blank", view |-> -1, body |-> "none", charts |-> <<>>]

----------------------------------------------------------------------------
(* One script run, dash.py:266-280, from the top to where it stops *)

\* tv_mode_on is False and "Start TV Mode" was not the trigger: the selected page is drawn
RunPage ==
    /\ pc = "start"
    /\ ~InitTvModeOn(session_state)["tv_mode_on"]
    /\ clicked # "start_tv"
    /\ session_state' = InitTvModeOn(session_state)
    /\ IF selection = "Main Dashboard"
       THEN LET frames == load_data(cache, budg_file, aum_file)
            IN  /\ df' = frames
                /\ cache' = frames
                /\ cache_hits' = (cache # <<>>)
                /\ screen' = [page |-> selection, view |-> -1, body |-> "charts",
                              charts |-> page_dashboard(frames)]
       ELSE \* page_okrs: load_data is not called; the OKR rows are not modelled
            /\ df' = <<>>
            /\ cache_hits' = FALSE
            /\ screen' = [page |-> selection, view |-> -1, body |-> "okrs", charts |-> <<>>]
            /\ UNCHANGED cache
    /\ pc' = "idle"
    /\ clicked' = "none"
    /\ UNCHANGED <<dataVars, selection, request, iteration_counter, start_index,
                   last_rendered, resumed, renders_since_stop>>

\* dash.py:275-277: the Start button reads True: set the flag and rerun
RunStartTV ==
    /\ pc = "start"
    /\ ~InitTvModeOn(session_state)["tv_mode_on"]
    /\ clicked = "start_tv"
    /\ session_state' = Put(InitTvModeOn(session_state), "tv_mode_on", TRUE)
    /\ pc' = "start"
    /\ clicked' = "none"
    /\ renders_since_stop' = -1
    /\ UNCHANGED <<dataVars, cache, df, selection, request, iteration_counter, screen,
                   start_index, last_rendered, resumed, cache_hits>>

\* faulty variant of RunExitTV: the flag is not cleared before the rerun
RunExitTVMutant ==
    /\ pc = "start"
    /\ InitTvModeOn(session_state)["tv_mode_on"]
    /\ clicked = "exit_tv"
    /\ pc' = "start"
    /\ clicked' = "none"
    /\ UNCHANGED <<dataVars, cache, df, session_state, selection, request,
                   iteration_counter, screen, start_index, last_rendered, resumed,
                   renders_since_stop, cache_hits>>

\* dash.py:172-174: in TV mode the Exit button reads True: clear the flag and rerun
RunExitTV ==
    /\ pc = "start"
    /\ InitTvModeOn(session_state)["tv_mode_on"]
    /\ clicked = "exit_tv"
    /\ session_state' = Put(session_state, "tv_mode_on", FALSE)
    /\ pc' = "start"
    /\ clicked' = "none"
    /\ UNCHANGED <<dataVars, cache, df, selection, request, iteration_counter, screen,
                   start_index, last_rendered, resumed, renders_since_stop, cache_hits>>

\* dash.py:176-239: in TV mode, Exit not clicked: load, build views, reach the loop
RunEnterTV ==
    /\ pc = "start"
    /\ InitTvModeOn(session_state)["tv_mode_on"]
    /\ clicked # "exit_tv"
    /\ LET frames == load_data(cache, budg_file, aum_file)
       IN  /\ df' = frames
           /\ cache' = frames
           /\ cache_hits' = (cache # <<>>)
    /\ session_state' = InitViewIndex(session_state)
    /\ iteration_counter' = 0
    /\ start_index' = session_state'["view_index"]
    /\ resumed' = Has(session_state, "view_index")
    /\ screen' = [page |-> "TV Mode", view |-> -1, body |-> "none", charts |-> <<>>]
    /\ pc' = "tv_loop"
    /\ clicked' = "none"
    /\ UNCHANGED <<dataVars, selection, request, last_rendered, renders_since_stop>>

----------------------------------------------------------------------------
(* The loop of page_tv_mode, dash.py:240-256 *)

\* dash.py:241-244: the placeholder is emptied and the title of the current view drawn
TVRenderTitle ==
    /\ pc = "tv_loop"
    /\ ~YieldStops(request)
    /\ iteration_counter < MaxIter
    /\ screen' = [page |-> "TV Mode", view |-> session_state["view_index"],
                  body |-> "pending", charts |-> <<>>]
    /\ pc' = "tv_body"
    /\ UNCHANGED <<dataVars, cache, df, session_state, selection, clicked, request,
                   iteration_counter, start_index, last_rendered, resumed,
                   renders_since_stop, cache_hits>>

\* dash.py:245-256: the body of the view is drawn, the index advances, the script sleeps
TVRenderBody ==
    /\ pc = "tv_body"
    /\ ~YieldStops(request)
    /\ LET view_index == session_state["view_index"]
           current_view == views[view_index + 1]
           unique_key == <<"tv_view", view_index, iteration_counter>>
       IN  /\ screen' =
                 IF current_view.type = "chart"
                 THEN [page |-> "TV Mode", view |-> view_index, body |-> "charts",
                       charts |-> <<Chart(df, current_view.table, current_view.categoria,
                                          current_view.cumulative, unique_key)>>]
                 ELSE [page |-> "TV Mode", view |-> view_index, body |-> "okrs",
                       charts |-> <<>>]
           /\ session_state' =
                 Put(session_state, "view_index", Advance(view_index, Len(views)))
           /\ last_rendered' = view_index
    /\ iteration_counter' = iteration_counter + 1
    /\ renders_since_stop' = IF renders_since_stop >= 0 THEN renders_since_stop + 1
                             ELSE renders_since_stop
    /\ pc' = "tv_sleep"
    /\ UNCHANGED <<dataVars, cache, df, selection, clicked, request, start_index,
                   resumed, cache_hits>>

\* dash.py:256: time.sleep(DELAY) returns
TVWake ==
    /\ pc = "tv_sleep"
    /\ pc' = "tv_loop"
    /\ UNCHANGED <<dataVars, cache, df, session_state, selection, clicked, request,
                   iteration_counter, screen, start_index, last_rendered, resumed,
                   renders_since_stop, cache_hits>>

\* a pending rerun request is served at the st.* call the loop reaches next: the run
\* is abandoned with its locals and the script starts again with the button set
TVInterrupt ==
    /\ pc \in {"tv_loop", "tv_body"}
    /\ YieldStops(request)
    /\ clicked' = request
    /\ request' = "none"
    /\ pc' = "start"
    /\ df' = <<>>
    /\ iteration_counter' = 0
    /\ UNCHANGED <<dataVars, cache, session_state, selection, screen, start_index,
                   last_rendered, resumed, renders_since_stop, cache_hits>>

----------------------------------------------------------------------------
(* The user *)

\* the sidebar radio (dash.py:273) is changed
SelectRadio(p) ==
    /\ pc = "idle"
    /\ p # selection
    /\ selection' = p
    /\ pc' = "start"
    /\ UNCHANGED <<dataVars, cache, df, session_state, clicked, request, iteration_counter,
                   screen, start_index, last_rendered, resumed, renders_since_stop,
                   cache_hits>>

\* the sidebar button "Start TV Mode" (dash.py:275) is clicked
ClickStartTV ==
    /\ pc = "idle"
    /\ clicked' = "start_tv"
    /\ pc' = "start"
    /\ UNCHANGED <<dataVars, cache, df, session_state, selection, request,
                   iteration_counter, screen, start_index, last_rendered, resumed,
                   renders_since_stop, cache_hits>>

\* the button "Exit TV Mode" (dash.py:172) is clicked while the loop runs
ClickExitTV ==
    /\ pc \in TvPcs
    /\ request = "none"
    /\ request' = "exit_tv"
    /\ renders_since_stop' = 0
    /\ UNCHANGED <<dataVars, cache, df, session_state, selection, clicked,
                   iteration_counter, pc, screen, start_index, last_rendered, resumed,
                   cache_hits>>

----------------------------------------------------------------------------
(* Workbooks *)

Dates == {20250331, 20250401, 20250501, 20260331, 20260401}

InWindowDates == {20250401, 20250501}

\* cells that exercise the loader: every date, every category
LoaderCells ==
    {<<d, c, "Actual", 100, 90>> :
        d \in Dates,
        c \in {"Disbursement", "AuM at the EoP", "Committed", "Revenues - Net of ECL"}}

\* cells that exercise the aggregation: both natures, two value pairs
AggCells ==
    {<<d, c, n, v[1], v[2]>> :
        d \in InWindowDates, c \in {"Committed", "Revenues - Net of ECL"},
        n \in {"Actual", "Forecast"}, v \in {<<100, 90>>, <<7, -4>>}}

Cells == LoaderCells \cup AggCells

\* a workbook: its rows in sheet order, labelled 0, 1, ... as read_excel labels them
Sheet(cells) ==
    [i \in 1..Len(cells) |->
        Row(i - 1, cells[i][1], cells[i][2], cells[i][3], cells[i][4], cells[i][5])]

Sheets == {Sheet(cells) : cells \in UNION {[1..n -> Cells] : n \in 0..MaxRows}}

SampleAum ==
    Sheet(<< <<20250401, "Disbursement", "Actual", 100, 90>>,
             <<20250501, "Disbursement", "Forecast", 7, -4>>,
             <<20260331, "Committed", "Forecast", 7, -4>>,
             <<20250401, "Committed", "Actual", 100, 90>>,
             <<20250501, "Committed", "Actual", 7, -4>>,
             <<20250501, "Committed", "Forecast", 100, 90>>,
             <<20250331, "AuM at the EoP", "Actual", 7, -4>>,
             <<20260331, "AuM at the EoP", "Actual", 100, 90>> >>)

SampleBudget ==
    Sheet(<< <<20250401, "Revenues - Net of ECL", "Actual", 100, 90>>,
             <<20250401, "Disbursement", "Actual", 7, -4>>,
             <<20250501, "Revenues - Net of ECL", "Estimate", 7, -4>>,
             <<20260401, "PROFIT BEFORE TAX", "Forecast", 100, 90>> >>)

----------------------------------------------------------------------------
(* Specifications *)

InitSession ==
    /\ cache = <<>>
    /\ df = <<>>
    /\ session_state = NoKeys
    /\ selection = PAGES[1]
    /\ clicked = "none"
    /\ request = "none"
    /\ pc = "start"
    /\ iteration_counter = 0
    /\ screen = Blank
    /\ start_index = 0
    /\ last_rendered = -1
    /\ resumed = FALSE
    /\ renders_since_stop = -1
    /\ cache_hits = FALSE

\* the whole application over sample workbooks
Init ==
    /\ budg_file \in {SampleBudget, <<>>}
    /\ aum_file \in {SampleAum, <<>>}
    /\ InitSession

Next ==
    \/ RunPage
    \/ RunStartTV
    \/ RunExitTV
    \/ RunEnterTV
    \/ TVRenderTitle
    \/ TVRenderBody
    \/ TVWake
    \/ TVInterrupt
    \/ \E p \in {PAGES[1], PAGES[2]} : SelectRadio(p)
    \/ ClickStartTV
    \/ ClickExitTV

Spec == Init /\ [][Next]_vars

\* the interactive pages over every bounded workbook: one workbook ranges over all
\* sheets while the other is a sample
InitData ==
    /\ \E sheet \in Sheets :
          \/ budg_file = sheet /\ aum_file = SampleAum
          \/ budg_file = SampleBudget /\ aum_file = sheet
    /\ InitSession

NextData ==
    \/ RunPage
    \/ \E p \in {PAGES[1], PAGES[2]} : SelectRadio(p)

SpecData == InitData /\ [][NextData]_vars

----------------------------------------------------------------------------
(* Vocabulary of the properties *)

TvOn == Has(session_state, "tv_mode_on") /\ session_state["tv_mode_on"]

NumViews == Len(views)

\* the workbook behind table t, and the workbook row a loaded row came from
Raw(t) == IF t = 1 THEN budg_file ELSE aum_file

Source(t, r) == Raw(t)[r["index"] + 1]

\* a loaded row carries k times its workbook values
Scaled(t, r, k) ==
    /\ r["Budget"] = k * Source(t, r)["Budget"]
    /\ r["Actual/Est"] = k * Source(t, r)["Actual/Est"]

RECURSIVE Total(_, _, _)
\* the sum of column col over the rows of frame whose positions are in I
Total(frame, I, col) ==
    IF I = {} THEN 0
    ELSE LET i == CHOOSE i \in I : TRUE
         IN  frame[i][col] + Total(frame, I \ {i}, col)

\* positions of the rows of a category, of one nature or ("*") of any
Keys(frame, categoria, nature) ==
    {i \in DOMAIN frame :
        /\ frame[i]["Categoria"] = categoria
        /\ nature = "*" \/ frame[i]["Natureza do Dado"] = nature}

DatesOf(frame, I) == {frame[i]["Data"] : i \in I}

On(frame, I, d) == {i \in I : frame[i]["Data"] = d}

Traces(fig, name) == {fig[k] : k \in {j \in DOMAIN fig : fig[j].name = name}}

Ascending(x) == \A k \in 1..(Len(x) - 1) : x[k] < x[k + 1]

\* the three series of a chart: trace name, nature filter, summed column
SeriesKinds ==
    {<<"Budget", "*", "Budget">>, <<"Actual", "Actual", "Actual/Est">>,
     <<"Forecast", "Forecast", "Actual/Est">>}

\* trace tr holds, in ascending date order, the per-date sums of column col over rows I
IsPerDateSum(tr, frame, I, col) ==
    /\ Len(tr.x) = Cardinality(DatesOf(frame, I))
    /\ Len(tr.y) = Len(tr.x)
    /\ Ascending(tr.x)
    /\ \A k \in 1..Len(tr.x) :
          /\ tr.x[k] \in DatesOf(frame, I)
          /\ tr.y[k] = Total(frame, On(frame, I, tr.x[k]), col)

\* trace tr holds the running sums: first value and successive differences are the
\* per-date sums
IsRunningSum(tr, frame, I, col) ==
    /\ Len(tr.x) = Cardinality(DatesOf(frame, I))
    /\ Len(tr.y) = Len(tr.x)
    /\ Ascending(tr.x)
    /\ \A k \in 1..Len(tr.x) :
          /\ tr.x[k] \in DatesOf(frame, I)
          /\ (IF k = 1 THEN tr.y[1] ELSE tr.y[k] - tr.y[k - 1])
                = Total(frame, On(frame, I, tr.x[k]), col)

ChartsShown == {screen.charts[k] : k \in DOMAIN screen.charts}

----------------------------------------------------------------------------
(* Properties *)

\* C1: in the TV loop each tick renders the view at view_index and then advances
\* view_index by one modulo the number of views: after k ticks of a loop entered at
\* index i the index is (i + k) mod n, the view just rendered is (i + k - 1) mod n,
\* the index is back at i after exactly n ticks and not before; with 3 views three
\* advances from 0 give 0.
C1_TickAdvancesModulo ==
    /\ Advance(Advance(Advance(0, 3), 3), 3) = 0
    /\ Advance(0, 3) = 1 /\ Advance(1, 3) = 2
    /\ pc \in TvPcs =>
          /\ session_state["view_index"] = (start_index + iteration_counter) % NumViews
          /\ iteration_counter \in 1..(NumViews - 1) =>
                session_state["view_index"] # start_index
          /\ iteration_counter = NumViews => session_state["view_index"] = start_index
    /\ pc = "tv_sleep" =>
          /\ screen.view = (start_index + iteration_counter - 1) % NumViews
          /\ screen.body # "pending"
          /\ session_state["view_index"] = (screen.view + 1) % NumViews

C1_Witness ==
    /\ pc = "tv_sleep"
    /\ start_index = 0
    /\ iteration_counter = NumViews
    /\ session_state["view_index"] = 0
    /\ screen.view = NumViews - 1

\* C2: tv_mode_on goes from off to running only in the run triggered by the Start
\* button and from running to off only in the run triggered by the Exit button; after
\* Exit is clicked while the loop runs at most one more view is rendered before the
\* flag is off; while the flag is off the loop does not run.
C2_StopStep ==
    /\ (~TvOn /\ TvOn') => (clicked = "start_tv" /\ pc = "start")
    /\ (TvOn /\ ~TvOn') => (clicked = "exit_tv" /\ pc = "start")
    /\ ~TvOn => (screen' = screen \/ screen'.page # "TV Mode")

C2_StartStopOnly ==
    /\ [](renders_since_stop <= 1)
    /\ [](~TvOn => pc \notin TvPcs)
    /\ [][C2_StopStep]_vars

C2_Witness ==
    /\ renders_since_stop >= 0
    /\ Has(session_state, "tv_mode_on")
    /\ ~session_state["tv_mode_on"]
    /\ last_rendered >= 0
    /\ pc = "idle"
    /\ screen.page # "TV Mode"

\* C3: every loaded row of category "AuM at the EoP" carries 1,000,000 times its
\* workbook Budget and Actual/Est.
C3_StockRowsScaled ==
    df # <<>> =>
        \A t \in {1, 2} : \A i \in DOMAIN df[t] :
            df[t][i]["Categoria"] = "AuM at the EoP" => Scaled(t, df[t][i], 1000000)

\* C4 as claimed: in both loaded tables Disbursement rows carry -1 times their workbook
\* values, rows of untransformed categories carry them unchanged.
C4_DisbursementNegatedBothTables ==
    df # <<>> =>
        \A t \in {1, 2} : \A i \in DOMAIN df[t] :
            /\ df[t][i]["Categoria"] = "Disbursement" => Scaled(t, df[t][i], -1)
            /\ df[t][i]["Categoria"] \notin {"Disbursement", "AuM at the EoP"} =>
                  Scaled(t, df[t][i], 1)

\* C4 amended: Disbursement rows of the AuM table carry -1 times their workbook values;
\* Disbursement rows of the budget table, and rows of untransformed categories in both
\* tables, carry them unchanged.
C4_DisbursementNegatedAumOnly ==
    df # <<>> =>
        /\ \A i \in DOMAIN df[2] :
              /\ df[2][i]["Categoria"] = "Disbursement" => Scaled(2, df[2][i], -1)
              /\ df[2][i]["Categoria"] \notin {"Disbursement", "AuM at the EoP"} =>
                    Scaled(2, df[2][i], 1)
        /\ \A i \in DOMAIN df[1] :
              df[1][i]["Categoria"] # "AuM at the EoP" => Scaled(1, df[1][i], 1)

C4_Witness ==
    /\ df # <<>>
    /\ \E i \in DOMAIN df[2] :
          df[2][i]["Categoria"] = "Disbursement" /\ df[2][i]["Budget"] = -100
    /\ \E i \in DOMAIN df[1] :
          df[1][i]["Categoria"] = "Disbursement" /\ df[1][i]["Budget"] = 100
    /\ \E i \in DOMAIN df[1] : df[1][i]["Categoria"] = "Committed"

\* C5: whatever runs came before, the tables a run gets from load_data, and the cached
\* entry, hold each Disbursement row of the AuM workbook negated once.
C5_TransformAppliedOnce ==
    /\ df # <<>> =>
          \A i \in DOMAIN df[2] :
              df[2][i]["Categoria"] = "Disbursement" => Scaled(2, df[2][i], -1)
    /\ cache # <<>> =>
          \A i \in DOMAIN cache[2] :
              cache[2][i]["Categoria"] = "Disbursement" => Scaled(2, cache[2][i], -1)
    /\ \A ch \in ChartsShown :
          (ch.table = 2 /\ ch.categoria = "Disbursement") =>
              \A tr \in Traces(ch.fig, "Budget") :
                  tr.y[1] = -1 * Total(aum_file,
                                       {i \in Keys(aum_file, "Disbursement", "*") :
                                           aum_file[i]["Data"] = tr.x[1]}, "Budget")

C5_Witness ==
    /\ cache_hits
    /\ resumed
    /\ pc = "tv_sleep"
    /\ screen.view = 1
    /\ \E ch \in ChartsShown : \E tr \in Traces(ch.fig, "Budget") : tr.y[1] = -100

\* C6: every loaded row is dated within [2025-04-01, 2026-03-31], and a workbook row
\* is loaded exactly when its date is in that window, the two end dates included.
C6_WindowFilter ==
    df # <<>> =>
        \A t \in {1, 2} :
            /\ \A i \in DOMAIN df[t] :
                  /\ df[t][i]["Data"] >= 20250401
                  /\ df[t][i]["Data"] <= 20260331
                  /\ df[t][i]["Data"] = Source(t, df[t][i])["Data"]
            /\ \A j \in DOMAIN Raw(t) :
                  (Raw(t)[j]["Data"] >= 20250401 /\ Raw(t)[j]["Data"] <= 20260331)
                     <=> Cardinality({i \in DOMAIN df[t] :
                                        df[t][i]["index"] = Raw(t)[j]["index"]}) = 1

C6_Witness ==
    /\ df # <<>>
    /\ Len(budg_file) = 2
    /\ budg_file[1]["Data"] = 20260401
    /\ budg_file[2]["Data"] = 20260331
    /\ Len(df[1]) = 1
    /\ df[1][1]["index"] = 1
    /\ \E i \in DOMAIN df[2] : df[2][i]["Data"] = 20250401

\* C7: a chart drawn without cumulation holds, per series and in ascending date order,
\* the per-date sums of its category's rows: Budget over all of them, Actual/Est over
\* the Actual rows, Actual/Est over the Forecast rows; a date has an entry in a series
\* exactly when a row of that series has that date.
C7_PerDateSums ==
    df # <<>> =>
        \A ch \in ChartsShown :
            ~ch.cumulative =>
                \A kind \in SeriesKinds :
                    LET frame == df[ch.table]
                        I == Keys(frame, ch.categoria, kind[2])
                    IN  /\ \A tr \in Traces(ch.fig, kind[1]) :
                              IsPerDateSum(tr, frame, I, kind[3])
                        /\ I # {} => Traces(ch.fig, kind[1]) # {}

C7_Witness ==
    /\ Len(budg_file) = 1
    /\ \E ch \in ChartsShown :
          /\ ch.table = 1
          /\ ch.categoria = "Revenues - Net of ECL"
          /\ ch.fig = << [name |-> "Actual", type |-> "Bar",
                          x |-> <<20250401>>, y |-> <<90>>],
                         [name |-> "Budget", type |-> "Scatter",
                          x |-> <<20250401>>, y |-> <<100>>] >>

\* C8: a chart drawn with cumulation holds in each series the running sums of the
\* per-date sums: same dates, first value equal, successive differences equal; a chart
\* drawn without cumulation holds the per-date sums themselves.
C8_CumulativeIsPrefixSum ==
    df # <<>> =>
        \A ch \in ChartsShown :
            \A kind \in SeriesKinds :
                LET frame == df[ch.table]
                    I == Keys(frame, ch.categoria, kind[2])
                IN  \A tr \in Traces(ch.fig, kind[1]) :
                        IF ch.cumulative
                        THEN IsRunningSum(tr, frame, I, kind[3])
                        ELSE IsPerDateSum(tr, frame, I, kind[3])

C8_Witness ==
    /\ \E ch \in ChartsShown :
          /\ ch.cumulative
          /\ ch.table = 2
          /\ Len(aum_file) = 2
          /\ \E tr \in Traces(ch.fig, "Actual") : tr.y = <<90, 86>>
          /\ \E tr \in Traces(ch.fig, "Budget") : tr.y = <<100, 107>>
    /\ \E ch \in ChartsShown : ~ch.cumulative /\ ch.fig # <<>>

\* C9: a chart has its Actual bar trace, its Forecast bar trace and its Budget line
\* trace each exactly when the table has a row for that series, each at most once and
\* never empty; a category with no rows gives a chart without traces.
C9_TraceIffSeriesNonEmpty ==
    df # <<>> =>
        \A ch \in ChartsShown :
            /\ \A kind \in SeriesKinds :
                  LET I == Keys(df[ch.table], ch.categoria, kind[2])
                      T == {k \in DOMAIN ch.fig : ch.fig[k].name = kind[1]}
                  IN  /\ Cardinality(T) = (IF I = {} THEN 0 ELSE 1)
                      /\ \A k \in T :
                            /\ Len(ch.fig[k].x) > 0
                            /\ ch.fig[k].type = (IF kind[1] = "Budget" THEN "Scatter" ELSE "Bar")
            /\ Keys(df[ch.table], ch.categoria, "*") = {} => ch.fig = <<>>

C9_Witness ==
    /\ df # <<>>
    /\ Len(budg_file) = 1
    /\ \E ch \in ChartsShown : ch.categoria = "PROFIT BEFORE TAX" /\ ch.fig = <<>>
    /\ \E ch \in ChartsShown :
          /\ ch.categoria = "Revenues - Net of ECL"
          /\ Traces(ch.fig, "Actual") # {}
          /\ Traces(ch.fig, "Forecast") = {}

\* C10: view_index, once stored, stays within 0 .. n-1; it is 0 until a view has been
\* rendered and from then on the successor of the last view rendered in full, across
\* stops and starts of TV mode; a loop entered again starts at the stored index.
C10_ViewIndexKept ==
    /\ Has(session_state, "view_index") =>
          /\ session_state["view_index"] \in 0..(NumViews - 1)
          /\ session_state["view_index"] =
                (IF last_rendered < 0 THEN 0 ELSE (last_rendered + 1) % NumViews)
    /\ ~Has(session_state, "view_index") => last_rendered < 0 /\ ~resumed
    /\ (pc \in TvPcs /\ iteration_counter = 0) =>
          start_index = session_state["view_index"]
    /\ (pc = "tv_sleep" /\ iteration_counter = 1) => screen.view = start_index

C10_Witness ==
    /\ resumed
    /\ pc = "tv_sleep"
    /\ iteration_counter = 1
    /\ screen.view = 3
    /\ session_state["view_index"] = 4

====
